---- MODULE Spec2Model ----
(***************************************************************************)
(* NewsRAG: the highlight ranker (SRC/pipeline/highlight_news.py) and the   *)
(* annotation stages (duplicate detection, topic grouping, topic labelling) *)
(* over the shared article collection.  The collection is a function from   *)
(* document position (the order collection.find returns documents in,      *)
(* which is also the document's _id here) to the document's fields.        *)
(***************************************************************************)
EXTENDS Integers, Sequences, FiniteSets, TLC

\* ---------------------------------------------------------------- bounds
NumArticles == 3      \* documents in the collection
MaxTopK     == 2      \* largest top_k a direct caller passes
MaxClock    == 2      \* runs of update_featured_highlights, one clock reading each
MaxBatch    == 3      \* articles in a batch a caller passes to the clustering
MaxLabel    == 1      \* largest label a caller passes to the update
MaxCalls    == 3      \* stage functions entered in one behaviour
MaxUpdateCalls == 1   \* direct calls of update_articles_with_clusters
MaxLabelBatch == 2    \* articles in the collection the labelling runs on
MaxPageArticles == 2  \* documents in the collection the dashboard reads
MaxIngestCalls == 2   \* calls of ingest_category in one behaviour
MaxLimit == 2         \* largest limit a caller passes to ingest_category
MaxUrls == 3          \* urls in one search result
MaxRelabelRuns == 1   \* labelling runs among the highlight runs
MaxTopicBatch == 4    \* articles in the collection the topic grouping runs on

\* ------------------------------------------------------ program constants
DefaultTopK  == 5     \* update_featured_highlights(..., top_k: int = 5)
KeywordBoost == 5     \* freq_scores[i] += 5 if has_keywords else 0
\* similarity_threshold = 0.9 as the fraction ThresholdNum / ThresholdDen
ThresholdNum == 9
ThresholdDen == 10
\* floating-point values are kept to three decimal places, as multiples of
\* 1/Scale
Scale == 1000
\* run_duplicate_detection: threshold=0.85
DupThreshold == 850
\* perform_topic_grouping(..., min_cluster_size: int = 5, ...)
DefaultMinClusterSize == 5
\* run_semantic_grouping: min_cluster_size=2
RunMinClusterSize == 2
\* the dashboard's query: the scores of its two $cond and its $limit
PageKeywordBoost   == 5
PageDuplicateBonus == 1
PageLimit          == 12

\* The categories the runs are asked for: two of run_highlight's eight.
Categories == {"sports", "finance"}

\* ------------------------------------------------------------------ text
\* A Python str is the sequence of its characters.
UpperChars == <<"A","B","C","D","E","F","G","H","I","J","K","L","M",
                "N","O","P","Q","R","S","T","U","V","W","X","Y","Z">>
LowerChars == <<"a","b","c","d","e","f","g","h","i","j","k","l","m",
                "n","o","p","q","r","s","t","u","v","w","x","y","z">>

\* str.lower() on one character
LowerChar(c) ==
    IF \E i \in 1..26 : UpperChars[i] = c
    THEN LowerChars[CHOOSE i \in 1..26 : UpperChars[i] = c]
    ELSE c

\* mutation: the text is not lowered before the test
NotLowered(s) == s

\* str.lower()
Lower(s) == [i \in 1..Len(s) |-> LowerChar(s[i])]

\* kw in s  (Python substring test)
Contains(kw, s) ==
    \E i \in 1..(Len(s) - Len(kw) + 1) : SubSeq(s, i, i + Len(kw) - 1) = kw

HIGHLIGHT_KEYWORDS ==
    { <<"b","r","e","a","k","i","n","g"," ","n","e","w","s">>,
      <<"e","x","c","l","u","s","i","v","e">>,
      <<"j","u","s","t"," ","i","n">>,
      <<"c","o","n","f","i","r","m","e","d">>,
      <<"r","e","v","e","a","l","e","d">> }

is_highlight_keyword_present(text) ==
    \E kw \in HIGHLIGHT_KEYWORDS : Contains(kw, Lower(text))

\* ------------------------------------------------------------ embeddings
Dot(u, v) == u[1] * v[1] + u[2] * v[2]

\* cosine_similarity(u, v) > similarity_threshold, in exact arithmetic:
\* dot/(|u||v|) > num/den  <=>  dot > 0 /\ den^2 dot^2 > num^2 |u|^2 |v|^2.
\* sklearn normalises a zero row to itself, so its similarity to anything is 0.
SimAbove(u, v) ==
    /\ Dot(u, v) > 0
    /\ ThresholdDen * ThresholdDen * Dot(u, v) * Dot(u, v)
         > ThresholdNum * ThresholdNum * Dot(u, u) * Dot(v, v)

\* ------------------------------------------------------ the input domain
\* the titles and texts of the documents the collection is drawn from
TitleBreaking == <<"B","R","E","A","K","I","N","G",":"," ","F","i","r","e">>
TitleJust     == <<"R","a","i","n"," ","J","u","s","t">>
TextIn        == <<" ","I","N"," ","n","o","w">>
TitlePlain    == <<"F","i","r","e">>
TextPlain     == <<"c","a","l","m">>

ArticleIds == 1..NumArticles

VARIABLES
    store,          \* db["articles"]: ArticleIds -> document
    argsort_stable, \* the numpy build: does argsort keep equal keys in order
    clock,          \* the last reading of datetime.now(); each run reads a later one
    pc,             \* where update_featured_highlights is
    category,       \* its argument
    top_k,          \* its argument
    articles,       \* get_highlights: the documents found, in find order
    freq_scores,    \* get_highlights: one score per found document
    highlight_ids,  \* update_featured_highlights: the _ids to feature
    now_str,        \* update_featured_highlights: the run timestamp
    done_writes,    \* how many of highlight_ids have been written
    todo,           \* run_highlights_for_all_categories: categories left
    order,          \* run_highlights_for_all_categories: its argument
    pre,            \* history: the collection when the current run began
    last_run,       \* history: the previous completed run and its result
    set_at          \* history: per document, the timestamp of the run that
                    \* last set its is_featured to True (0: none did)

VARIABLES
    stage,          \* the annotation function that is running, or "none"
    spc,            \* where it is
    threshold,      \* perform_duplicate_clustering: its argument, in 1/Scale
    batch,          \* the stage's `articles` list, as _ids in list order
    labels,         \* the stage's `labels`, one per element of batch
    written,        \* how many turns of the stage's update loop are over
    write_log,      \* history: the _ids update_one was called for, in order
    prior,          \* history: how the stage run before this one ended
    calls,          \* history: how many stage functions have been entered
    min_cluster_size, \* perform_topic_grouping: its argument
    page            \* the dashboard: the last result of its query

VARIABLES
    other,          \* a second caller's run of run_duplicate_detection
    app_pc,         \* app.py: where the button's handler is
    executed,       \* history: the stage functions the handler has called
    ing_pc,         \* where ingest_category is
    ing_category,   \* its argument `category`
    ing_limit,      \* its argument `limit`
    urls,           \* ingest_category: the search results not yet looked at
    stored_count,   \* ingest_category: its counter
    to_vectorize,   \* ingest_category: its list for the vector store
    ing_calls       \* history: how many calls of ingest_category began

\* the state of the highlight run
run_vars == << argsort_stable, clock, pc, category, top_k, articles,
               freq_scores, highlight_ids, now_str, done_writes, todo, order,
               last_run, set_at >>

\* the state of the annotation stage and of the dashboard
stage_vars == << stage, spc, threshold, batch, labels, written, write_log,
                 prior, calls, min_cluster_size, page >>

\* the state of the button's handler
app_vars == << app_pc, executed >>

\* the state of ingest_category
ingest_vars == << ing_pc, ing_category, ing_limit, urls, stored_count,
                 to_vectorize, ing_calls >>

vars == << store, argsort_stable, clock, pc, category, top_k, articles,
           freq_scores, highlight_ids, now_str, done_writes, todo, order,
           pre, last_run, set_at, stage, spc, threshold, batch, labels,
           written, write_log, prior, calls, min_cluster_size, page, other,
           app_pc, executed, ing_pc, ing_category, ing_limit, urls,
           stored_count, to_vectorize, ing_calls >>

NoRun == [category |-> "none", top_k |-> 0, featured |-> {}]

\* the dashboard has not queried yet
NoPage == [category |-> "none", date |-> 0, rows |-> <<>>]

\* ------------------------------------------------------------- documents
\* A document is a function from the names of the fields it has to their
\* values; doc.get(f) / {"f": {"$exists": ...}} test the domain.
Has(doc, f) == f \in DOMAIN doc

\* update {"$set": fields}: the named fields are added or overwritten
SetFields(doc, fields) ==
    [f \in DOMAIN doc \cup DOMAIN fields |->
        IF f \in DOMAIN fields THEN fields[f] ELSE doc[f]]

\* the filter {"predicted_topic": category}
MatchesTopic(doc, cat) == Has(doc, "predicted_topic") /\ doc["predicted_topic"] = cat

\* the filter {"predicted_topic": category, "is_featured": True}
IsFeatured(doc) == Has(doc, "is_featured") /\ doc["is_featured"] = TRUE

\* the ascending sequence of a set of positions (find's natural order)
RECURSIVE InOrder(_)
InOrder(S) ==
    IF S = {} THEN <<>>
    ELSE LET m == CHOOSE x \in S : \A y \in S : x <= y
         IN  <<m>> \o InOrder(S \ {m})

\* list(collection.find({"predicted_topic": category})), as _ids
Find(db, cat) == InOrder({i \in DOMAIN db : MatchesTopic(db[i], cat)})

Range(s) == {s[i] : i \in 1..Len(s)}

\* -------------------------------------------------------- get_highlights
\* article.get(f, "")
GetOr(doc, f, default) == IF Has(doc, f) THEN doc[f] ELSE default

\* article["embedding"] raises KeyError for a document without the field
RaisesKeyError(db, arts) ==
    \E i \in 1..Len(arts) : ~Has(db[arts[i]], "embedding")

\* np.array([article["embedding"] for article in articles])
EmbeddingsOf(db, arts) == [i \in 1..Len(arts) |-> db[arts[i]]["embedding"]]

\* sim_matrix > similarity_threshold, as a matrix of booleans
AboveMatrix(embs) ==
    [i \in 1..Len(embs) |-> [j \in 1..Len(embs) |-> SimAbove(embs[i], embs[j])]]

\* (...).sum(axis=1): the number of TRUE entries of each row
RowSums(m) == [i \in 1..Len(m) |-> Cardinality({j \in 1..Len(m) : m[i][j]})]

\* the text the keyword test reads: article.get("title","") + article.get("text","")
TitleAndText(doc) == GetOr(doc, "title", <<>>) \o GetOr(doc, "text", <<>>)

\* mutation: a document never featured before gets one more point
FreqScoresFresh(db, arts) ==
    LET freq == RowSums(AboveMatrix(EmbeddingsOf(db, arts)))
    IN  [i \in 1..Len(arts) |->
            freq[i] + (IF is_highlight_keyword_present(TitleAndText(db[arts[i]]))
                       THEN KeywordBoost ELSE 0)
                    + (IF Has(db[arts[i]], "featured_at") THEN 0 ELSE 1)]

\* freq_scores after the keyword loop (steps 3 and 4)
FreqScores(db, arts) ==
    LET freq == RowSums(AboveMatrix(EmbeddingsOf(db, arts)))
    IN  [i \in 1..Len(arts) |->
            freq[i] + (IF is_highlight_keyword_present(TitleAndText(db[arts[i]]))
                       THEN KeywordBoost ELSE 0)]

\* does index i sort before index j: by score, equal scores by position when
\* the build's argsort is stable and in the other order when it is not
SortsBefore(scores, stable, i, j) ==
    \/ scores[i] < scores[j]
    \/ /\ scores[i] = scores[j]
       /\ IF stable THEN i < j ELSE i > j

RECURSIVE ArgSortOf(_, _, _)
ArgSortOf(scores, stable, S) ==
    IF S = {} THEN <<>>
    ELSE LET m == CHOOSE i \in S :
                     \A j \in S \ {i} : SortsBefore(scores, stable, i, j)
         IN  <<m>> \o ArgSortOf(scores, stable, S \ {m})

\* np.argsort(scores): the indices in ascending order of score
ArgSort(scores, stable) == ArgSortOf(scores, stable, 1..Len(scores))

\* mutation: the slice is one too long, seq[-(k+1):]
LastKPlusOne(seq, k) ==
    IF k + 1 >= Len(seq) THEN seq
    ELSE SubSeq(seq, Len(seq) - k, Len(seq))

\* mutation: the slice takes the head of the ascending order, seq[:k]
FirstK(seq, k) ==
    IF k >= Len(seq) THEN seq ELSE SubSeq(seq, 1, k)

\* seq[-k:]  (Python: -0 is 0, so seq[-0:] is the whole sequence)
LastK(seq, k) ==
    IF k = 0 \/ k >= Len(seq) THEN seq
    ELSE SubSeq(seq, Len(seq) - k + 1, Len(seq))

\* seq[::-1]
Reversed(seq) == [i \in 1..Len(seq) |-> seq[Len(seq) + 1 - i]]

\* np.argsort(freq_scores)[-top_k:][::-1]
TopIndices(scores, k, stable) == Reversed(LastK(ArgSort(scores, stable), k))

\* [doc["_id"] for doc in get_highlights(db, category, top_k)]
HighlightIds(arts, scores, k, stable) ==
    LET top == TopIndices(scores, k, stable)
    IN  [i \in 1..Len(top) |-> arts[top[i]]]

\* ---------------------------------------------- update_featured_highlights
\* mutation: the reset is left out
ResetNothing(db, cat) == db

\* mutation: the reset's filter is left out, every document is reset
ResetEverything(db, cat) ==
    [i \in DOMAIN db |-> SetFields(db[i], [is_featured |-> FALSE])]

\* mutation: update_one in place of update_many, only the first document
\* of the category is reset
ResetFirst(db, cat) ==
    [i \in DOMAIN db |->
        IF MatchesTopic(db[i], cat)
           /\ \A j \in DOMAIN db : MatchesTopic(db[j], cat) => i <= j
        THEN SetFields(db[i], [is_featured |-> FALSE])
        ELSE db[i]]

\* collection.update_many({"predicted_topic": category},
\*                        {"$set": {"is_featured": False}})
ResetCategory(db, cat) ==
    [i \in DOMAIN db |->
        IF MatchesTopic(db[i], cat)
        THEN SetFields(db[i], [is_featured |-> FALSE])
        ELSE db[i]]

\* mutation: the timestamp is left out of the update
FeaturedFlagOnly(now) == [is_featured |-> TRUE]

\* the fields of {"$set": {"is_featured": True, "featured_at": now_str}}
FeaturedFields(now) == [is_featured |-> TRUE, featured_at |-> now]

\* mutation: the early return for no documents is left out, and
\* cosine_similarity raises on the empty array
RaisesWithoutEmptyGuard(db, arts) == arts = <<>> \/ RaisesKeyError(db, arts)

\* get_highlights returns [] for no documents before it touches an embedding;
\* otherwise a document without one raises
GetHighlightsRaises(db, arts) == arts # <<>> /\ RaisesKeyError(db, arts)

\* the _ids of the category's featured documents
FeaturedIn(db, cat) ==
    {i \in DOMAIN db : MatchesTopic(db[i], cat) /\ IsFeatured(db[i])}

Ended == {"idle", "done", "raised", "aborted"}

\* entering update_featured_highlights(mongo_client, cat, k): lines 57-63
EnterRun(cat, k) ==
    /\ store' = ResetCategory(store, cat)
    /\ pc' = "get"
    /\ category' = cat
    /\ top_k' = k
    /\ articles' = <<>>
    /\ freq_scores' = <<>>
    /\ highlight_ids' = <<>>
    /\ now_str' = 0
    /\ done_writes' = 0
    /\ pre' = store
    /\ last_run' = IF pc = "done"
                   THEN [category |-> category, top_k |-> top_k,
                         featured |-> FeaturedIn(store, category)]
                   ELSE NoRun
    /\ UNCHANGED << argsort_stable, clock, set_at >>
    /\ UNCHANGED stage_vars
    /\ UNCHANGED << other, ingest_vars >>

\* a caller runs update_featured_highlights(mongo_client, cat, k)
UpdateFeaturedHighlights(cat, k) ==
    /\ pc \in Ended
    /\ todo = <<>>
    /\ clock < MaxClock
    /\ EnterRun(cat, k)
    /\ order' = <<>>
    /\ todo' = <<>>
    /\ UNCHANGED app_vars

\* lines 66-70: get_highlights, the _ids, and the run timestamp
GetHighlights ==
    /\ pc = "get"
    /\ LET arts == Find(store, category)
       IN  IF GetHighlightsRaises(store, arts)
           THEN /\ pc' = "raised"
                /\ articles' = arts
                /\ todo' = <<>>
                /\ UNCHANGED << clock, freq_scores, highlight_ids, now_str >>
           ELSE LET t == clock + 1 IN
                /\ pc' = "persist"
                /\ articles' = arts
                /\ freq_scores' = FreqScores(store, arts)
                /\ highlight_ids' =
                       HighlightIds(arts, FreqScores(store, arts), top_k,
                                    argsort_stable)
                /\ now_str' = t
                /\ clock' = t
                /\ UNCHANGED todo
    /\ UNCHANGED << store, argsort_stable, category, top_k, done_writes,
                    order, pre, last_run, set_at >>
    /\ UNCHANGED stage_vars
    /\ UNCHANGED << other, app_vars, ingest_vars >>

\* one turn of the loop of lines 71-74
PersistOne ==
    /\ pc = "persist"
    /\ done_writes < Len(highlight_ids)
    /\ store' = [store EXCEPT ![highlight_ids[done_writes + 1]] =
                     SetFields(@, FeaturedFields(now_str))]
    /\ done_writes' = done_writes + 1
    /\ set_at' = [set_at EXCEPT ![highlight_ids[done_writes + 1]] = now_str]
    /\ UNCHANGED << argsort_stable, clock, pc, category, top_k, articles,
                    freq_scores, highlight_ids, now_str, todo, order, pre,
                    last_run >>
    /\ UNCHANGED stage_vars
    /\ UNCHANGED << other, app_vars, ingest_vars >>

\* the loop is over: lines 76-78, the function returns
Return ==
    /\ pc = "persist"
    /\ done_writes = Len(highlight_ids)
    /\ pc' = "done"
    /\ UNCHANGED << store, argsort_stable, clock, category, top_k, articles,
                    freq_scores, highlight_ids, now_str, done_writes, todo,
                    order, pre, last_run, set_at >>
    /\ UNCHANGED stage_vars
    /\ UNCHANGED << other, app_vars, ingest_vars >>

\* the process is stopped inside a run; what was written stays written
Abort ==
    /\ pc \in {"get", "persist"}
    /\ pc' = "aborted"
    /\ todo' = <<>>
    /\ UNCHANGED << store, argsort_stable, clock, category, top_k, articles,
                    freq_scores, highlight_ids, now_str, done_writes, order,
                    pre, last_run, set_at >>
    /\ UNCHANGED stage_vars
    /\ UNCHANGED << other, app_vars, ingest_vars >>

\* ------------------------------------------ run_highlights_for_all_categories
\* the orders a caller may pass the categories in
Orders ==
    {o \in [1..Cardinality(Categories) -> Categories] :
        \A i, j \in DOMAIN o : i # j => o[i] # o[j]}

\* run_highlights_for_all_categories(mongo_client, o): the first iteration
ForAllCategories(o) ==
    /\ pc \in Ended
    /\ todo = <<>>
    /\ clock + Len(o) <= MaxClock
    /\ EnterRun(o[1], DefaultTopK)
    /\ order' = o
    /\ todo' = Tail(o)

\* a caller runs run_highlights_for_all_categories(mongo_client, o)
RunHighlightsForAllCategories(o) ==
    /\ ForAllCategories(o)
    /\ UNCHANGED app_vars

\* the next iteration of the loop of lines 85-87
NextCategory ==
    /\ pc = "done"
    /\ todo # <<>>
    /\ EnterRun(Head(todo), DefaultTopK)
    /\ todo' = Tail(todo)
    /\ UNCHANGED order
    /\ UNCHANGED app_vars

\* ---------------------------------------------------------- ingest_category
\* the article_data ingest_category inserts: what extract_article_metadata
\* returned with category, embedding and ingested_at added (lines 134-139)
ArticleData(url, cat) ==
    [title |-> "t", url |-> url, text |-> "x", source |-> "s",
     category |-> cat, embedding |-> <<1, 1, 1>>, ingested_at |-> 1]

\* the dict ingest_category appends to to_vectorize (lines 140-150)
ToVectorize(data) ==
    [title |-> data["title"], text |-> data["text"], url |-> data["url"],
     source |-> data["source"], category |-> data["category"],
     embedding |-> data["embedding"]]

\* the document MongoDBAtlasVectorSearch.add_documents inserts for one
\* Document of upsert_to_vector_store: the page content under "text", the
\* vector its own embedding model computes under "embedding", and the
\* metadata's fields (lines 186-199)
VectorDocument(doc) ==
    [text |-> doc["text"], embedding |-> <<2, 2, 2>>, title |-> doc["title"],
     url |-> doc["url"], source |-> doc["source"], category |-> doc["category"]]

\* collection.find_one({"url": url}) finds a document
FindOneByUrl(db, url) ==
    \E i \in DOMAIN db : Has(db[i], "url") /\ db[i]["url"] = url

IngestEnded == {"idle", "done", "raised"}

\* ingest_category(collection, cat, lim) up to its loop (lines 110-114);
\* found is the list google_news_urls returns, of at most lim * 2 urls (the
\* empty list when the search raises)
IngestCategory(cat, lim, found) ==
    /\ ing_pc \in IngestEnded
    /\ ing_calls < MaxIngestCalls
    /\ Len(found) <= lim * 2
    /\ ing_calls' = ing_calls + 1
    /\ ing_pc' = "loop"
    /\ ing_category' = cat
    /\ ing_limit' = lim
    /\ urls' = found
    /\ stored_count' = 0
    /\ to_vectorize' = <<>>
    /\ pre' = store
    /\ UNCHANGED << store, other >>
    /\ UNCHANGED << run_vars, stage_vars, app_vars >>

\* the loop is over: the list is exhausted, or stored_count >= limit breaks
IngestLoopExit ==
    /\ ing_pc = "loop"
    /\ urls = <<>> \/ stored_count >= ing_limit
    /\ ing_pc' = "upsert"
    /\ UNCHANGED << store, pre, other, ing_category, ing_limit, urls,
                    stored_count, to_vectorize, ing_calls >>
    /\ UNCHANGED << run_vars, stage_vars, app_vars >>

\* a turn of the loop that ends in one of its three `continue`: the url is
\* in the collection (line 121), or extract_article_metadata gave no text
\* (it returns {} when it fails, line 125), or get_openai_embedding gave []
\* (line 131)
IngestSkip(known) ==
    /\ ing_pc = "loop"
    /\ urls # <<>>
    /\ stored_count < ing_limit
    /\ known = FindOneByUrl(store, Head(urls))
    /\ urls' = Tail(urls)
    /\ UNCHANGED << store, pre, other, ing_pc, ing_category, ing_limit,
                    stored_count, to_vectorize, ing_calls >>
    /\ UNCHANGED << run_vars, stage_vars, app_vars >>

\* a turn of the loop that reaches insert_one (lines 134-154)
IngestStore ==
    /\ ing_pc = "loop"
    /\ urls # <<>>
    /\ stored_count < ing_limit
    /\ ~FindOneByUrl(store, Head(urls))
    /\ store' = Append(store, ArticleData(Head(urls), ing_category))
    /\ to_vectorize' =
           Append(to_vectorize, ToVectorize(ArticleData(Head(urls), ing_category)))
    /\ stored_count' = stored_count + 1
    /\ urls' = Tail(urls)
    /\ UNCHANGED << pre, other, ing_pc, ing_category, ing_limit, ing_calls >>
    /\ UNCHANGED << run_vars, stage_vars, app_vars >>

\* upsert_to_vector_store(to_vectorize), line 155: nothing for an empty
\* list; otherwise the vector store, built on the namespace
\* "news_data.articles" (the collection ingest_category writes to), inserts
\* one document for each element, or the call raises
UpsertToVectorStore(fails) ==
    /\ ing_pc = "upsert"
    /\ IF to_vectorize = <<>>
       THEN /\ ~fails
            /\ ing_pc' = "done"
            /\ UNCHANGED store
       ELSE IF fails
       THEN /\ ing_pc' = "raised"
            /\ UNCHANGED store
       ELSE /\ ing_pc' = "done"
            /\ store' = store \o [i \in 1..Len(to_vectorize) |->
                                      VectorDocument(to_vectorize[i])]
    /\ UNCHANGED << pre, other, ing_category, ing_limit, urls, stored_count,
                    to_vectorize, ing_calls >>
    /\ UNCHANGED << run_vars, stage_vars, app_vars >>

\* ------------------------------------------------------------------ app.py
\* the stage functions app.py imports, in the order of its steps
PipelineStages ==
    << "run_ingestion_pipeline", "run_duplicate_detection",
       "run_semantic_grouping", "zeroshot_topic_clustering", "run_highlight" >>

\* st.button("Run End-to-End Pipeline") is pressed: the handler is entered
PressButton ==
    /\ app_pc \in {"idle", "success", "error"}
    /\ pc \in Ended
    /\ todo = <<>>
    /\ app_pc' = "pressed"
    /\ executed' = <<>>
    /\ UNCHANGED << store, pre, other >>
    /\ UNCHANGED << run_vars, stage_vars, ingest_vars >>

\* the body of the try block: steps 1 to 3 (lines 22-30) are comments, so the
\* first and only call is run_highlight(mongo_client), line 33, which runs
\* run_highlights_for_all_categories over its list of categories
RunHighlight ==
    /\ app_pc = "pressed"
    /\ app_pc' = "step4"
    /\ executed' = Append(executed, "run_highlight")
    /\ \E o \in Orders : ForAllCategories(o)

\* run_highlight has returned: st.success, line 35
ReportSuccess ==
    /\ app_pc = "step4"
    /\ pc = "done"
    /\ todo = <<>>
    /\ app_pc' = "success"
    /\ UNCHANGED << store, pre, other, executed >>
    /\ UNCHANGED << run_vars, stage_vars, ingest_vars >>

\* run_highlight has raised: except Exception, st.error, line 39
ReportError ==
    /\ app_pc = "step4"
    /\ pc = "raised"
    /\ app_pc' = "error"
    /\ UNCHANGED << store, pre, other, executed >>
    /\ UNCHANGED << run_vars, stage_vars, ingest_vars >>

\* ======================================================= annotation stages
\* list(collection.find({"embedding": {"$exists": True}})), as _ids
fetch_articles_with_embeddings(db) ==
    InOrder({i \in DOMAIN db : Has(db[i], "embedding")})

RECURSIVE SumSeq(_)
SumSeq(s) == IF s = <<>> THEN 0 ELSE Head(s) + SumSeq(Tail(s))

Min(a, b) == IF a < b THEN a ELSE b

Max(a, b) == IF a < b THEN b ELSE a

\* ----------------------------------------------------- cosine_similarity
\* the floor of a square root, by Newton's iteration from above
RECURSIVE NewtonSqrt(_, _)
NewtonSqrt(n, x) ==
    LET y == (x + n \div x) \div 2
    IN  IF y >= x THEN x ELSE NewtonSqrt(n, y)

ISqrt(n) == IF n = 0 THEN 0 ELSE NewtonSqrt(n, n)

\* the Euclidean length of a row, in 1/Scale
L2Norm(v) == ISqrt(SumSeq([i \in DOMAIN v |-> v[i] * v[i]]) * Scale * Scale)

\* sklearn normalises every row to unit length first (a zero row stays zero);
\* the components of the result are in 1/Scale
Normalized(v) ==
    LET norm == L2Norm(v)
    IN  [i \in DOMAIN v |->
            IF norm = 0 THEN 0 ELSE (v[i] * Scale * Scale) \div norm]

\* cosine_similarity of two rows: the dot product of the normalised rows,
\* in 1/Scale
CosineSimilarity(u, v) ==
    LET un == Normalized(u)
        vn == Normalized(v)
    IN  SumSeq([i \in DOMAIN u |-> un[i] * vn[i]]) \div Scale

\* mutation: the similarity itself is used as the distance
SimilarityMatrix(db, arts) ==
    [i \in 1..Len(arts) |-> [j \in 1..Len(arts) |->
        CosineSimilarity(db[arts[i]]["embedding"], db[arts[j]]["embedding"])]]

\* distance_matrix = 1 - cosine_similarity(embeddings)
DistanceMatrix(db, arts) ==
    [i \in 1..Len(arts) |-> [j \in 1..Len(arts) |->
        Scale - CosineSimilarity(db[arts[i]]["embedding"],
                                 db[arts[j]]["embedding"])]]

\* ------------------------------------------------ AgglomerativeClustering
RECURSIVE SumPairs(_, _)
SumPairs(D, P) ==
    IF P = {} THEN 0
    ELSE LET p == CHOOSE q \in P : TRUE
         IN  D[p[1]][p[2]] + SumPairs(D, P \ {p})

\* linkage="average": the distance of two clusters is the mean distance of
\* the pairs of articles across them, kept as the fraction sum / count
AverageLinkage(D, X, Y) ==
    [sum |-> SumPairs(D, X \X Y), count |-> Cardinality(X) * Cardinality(Y)]

\* a < b for two such fractions
Closer(a, b) == a.sum * b.count < b.sum * a.count

\* The merge tree.  cl maps a slot (an input position) to the cluster kept in
\* it: the positions of its articles and its node number (leaves are
\* 0..n-1, the k-th merge makes node n+k-1).  The closest pair of clusters is
\* merged into the later slot; of equally close pairs the first in slot
\* order is taken.  A row is a merge: its two children and their distance.
RECURSIVE MergeTree(_, _, _, _)
MergeTree(D, cl, n, rows) ==
    LET active == {i \in 1..n : cl[i].members # {}}
        pairs == {p \in active \X active : p[1] < p[2]}
        dist == [p \in pairs |->
                    AverageLinkage(D, cl[p[1]].members, cl[p[2]].members)]
        first(p, q) == p[1] < q[1] \/ (p[1] = q[1] /\ p[2] <= q[2])
    IN  IF pairs = {} THEN rows
        ELSE LET c == CHOOSE p \in pairs : \A q \in pairs :
                          \/ Closer(dist[p], dist[q])
                          \/ ~Closer(dist[q], dist[p]) /\ first(p, q)
                 a == cl[c[1]].node
                 b == cl[c[2]].node
                 row == [left |-> Min(a, b), right |-> Max(a, b),
                         distance |-> dist[c]]
                 merged == [members |-> cl[c[1]].members \cup cl[c[2]].members,
                            node |-> n + Len(rows)]
             IN  MergeTree(D, [cl EXCEPT ![c[1]] = [members |-> {}, node |-> 0],
                                         ![c[2]] = merged],
                           n, Append(rows, row))

\* children_ and distances_ of the full tree over n articles
LinkageTree(D, n) ==
    MergeTree(D, [i \in 1..n |-> [members |-> {i}, node |-> i - 1]], n, <<>>)

\* mutation: a merge at exactly the cutoff is kept
AtOrAboveCutoffOnly(row, th) ==
    row.distance.sum > (Scale - th) * row.distance.count

\* the merge's distance is >= distance_threshold = 1 - threshold
AtOrAboveCutoff(row, th) ==
    row.distance.sum >= (Scale - th) * row.distance.count

\* n_clusters_ = np.count_nonzero(distances_ >= distance_threshold) + 1
NClusters(tree, th) ==
    Cardinality({k \in 1..Len(tree) : AtOrAboveCutoff(tree[k], th)}) + 1

\* heapq on a list of node numbers; positions are Python's, from 0
RECURSIVE siftdown(_, _, _, _)
siftdown(heap, startpos, pos, newitem) ==
    IF pos > startpos /\ newitem < heap[(pos - 1) \div 2 + 1]
    THEN siftdown([heap EXCEPT ![pos + 1] = heap[(pos - 1) \div 2 + 1]],
                  startpos, (pos - 1) \div 2, newitem)
    ELSE [heap EXCEPT ![pos + 1] = newitem]

RECURSIVE siftup(_, _, _, _)
siftup(heap, startpos, pos, newitem) ==
    LET childpos == 2 * pos + 1
        rightpos == childpos + 1
        child == IF rightpos < Len(heap)
                    /\ ~(heap[childpos + 1] < heap[rightpos + 1])
                 THEN rightpos ELSE childpos
    IN  IF childpos < Len(heap)
        THEN siftup([heap EXCEPT ![pos + 1] = heap[child + 1]],
                    startpos, child, newitem)
        ELSE siftdown(heap, startpos, pos, newitem)

heappush(heap, item) ==
    siftdown(Append(heap, item), 0, Len(heap), item)

\* the heap after heappushpop(heap, item)
heappushpop(heap, item) ==
    IF heap # <<>> /\ heap[1] < item
    THEN siftup([heap EXCEPT ![1] = item], 0, 0, item)
    ELSE heap

\* _hc_cut: the negated numbers of the n_clusters top nodes, as a heap
RECURSIVE CutNodes(_, _, _, _)
CutNodes(nodes, children, n_leaves, splits) ==
    IF splits = 0 THEN nodes
    ELSE LET these == children[-nodes[1] - n_leaves + 1]
         IN  CutNodes(heappushpop(heappush(nodes, -these.left), -these.right),
                      children, n_leaves, splits - 1)

\* the leaves under a node
RECURSIVE Descendants(_, _, _)
Descendants(node, children, n_leaves) ==
    IF node < n_leaves THEN {node}
    ELSE Descendants(children[node - n_leaves + 1].left, children, n_leaves)
         \cup Descendants(children[node - n_leaves + 1].right, children,
                          n_leaves)

\* mutation: the labels go round the positions instead of following the tree
HcCutByPosition(n_clusters, children, n_leaves) ==
    [p \in 1..n_leaves |-> (p - 1) % n_clusters]

\* _hc_cut(n_clusters, children, n_leaves): the articles under the i-th node
\* of the heap get label i
HcCut(n_clusters, children, n_leaves) ==
    LET nodes == CutNodes(<< -(children[n_leaves - 1].right + 1) >>,
                          children, n_leaves, n_clusters - 1)
    IN  [p \in 1..n_leaves |->
            (CHOOSE i \in 1..Len(nodes) :
                (p - 1) \in Descendants(-nodes[i], children, n_leaves)) - 1]

\* ------------------------------------------- perform_duplicate_clustering
\* An empty array is rejected by cosine_similarity and a single sample by
\* AgglomerativeClustering.fit (it asks for at least two): ValueError.
ClusteringRaises(arts) == Len(arts) < 2

\* clustering.fit_predict(distance_matrix), threshold th in 1/Scale
perform_duplicate_clustering(db, arts, th) ==
    LET tree == LinkageTree(DistanceMatrix(db, arts), Len(arts))
    IN  HcCut(NClusters(tree, th), tree, Len(arts))

\* ------------------------------------------ update_articles_with_clusters
\* mutation: every article is given the first label
ClusterFieldsFirst(labs, i) == [duplicate_cluster_id |-> labs[1]]

\* the fields of {"$set": {"duplicate_cluster_id": int(label)}} for the
\* i-th pair of zip(articles, labels)
ClusterFields(labs, i) == [duplicate_cluster_id |-> labs[i]]

\* mutation: a field the document already has is kept
UpdateOneIfUnset(db, id, fields) ==
    [db EXCEPT ![id] = SetFields(fields, @)]

\* mutation: the filter is left out, the first document is updated
UpdateOneFirst(db, id, fields) ==
    [db EXCEPT ![1] = SetFields(@, fields)]

\* collection.update_one({"_id": id}, {"$set": fields})
UpdateOne(db, id, fields) ==
    [db EXCEPT ![id] = SetFields(@, fields)]

\* a stage function is not running
StageEnded == {"idle", "done", "raised", "aborted", "returned"}

\* entering a stage function: the history of the run before it
EnterStage ==
    /\ spc \in StageEnded
    /\ calls < MaxCalls
    /\ calls' = calls + 1
    /\ pre' = store
    /\ written' = 0
    /\ write_log' = <<>>
    /\ prior' = [outcome |-> spc, batch |-> batch, written |-> written]
    /\ UNCHANGED << store, page >>
    /\ UNCHANGED run_vars
    /\ UNCHANGED << other, app_vars, ingest_vars >>

\* a caller runs update_articles_with_clusters(db, "articles", arts, labs)
\* with documents of the collection and one label for each
UpdateArticlesWithClusters(arts, labs) ==
    /\ EnterStage
    /\ stage' = "update_clusters"
    /\ spc' = "update"
    /\ batch' = arts
    /\ labels' = labs
    /\ UNCHANGED << threshold, min_cluster_size >>

\* run_duplicate_detection(mongo_client): lines 72-84
RunDuplicateDetection ==
    /\ EnterStage
    /\ stage' = "duplicates"
    /\ batch' = fetch_articles_with_embeddings(store)
    /\ threshold' = DupThreshold
    /\ UNCHANGED min_cluster_size
    /\ IF batch' = <<>>
       THEN /\ spc' = "done"
            /\ labels' = <<>>
       ELSE IF ClusteringRaises(batch')
       THEN /\ spc' = "raised"
            /\ labels' = <<>>
       ELSE /\ spc' = "update"
            /\ labels' = perform_duplicate_clustering(store, batch',
                                                      DupThreshold)

\* one turn of the loop of lines 63-66
UpdateCluster ==
    /\ stage \in {"duplicates", "update_clusters"}
    /\ spc = "update"
    /\ written < Len(batch)
    /\ store' = UpdateOne(store, batch[written + 1],
                          ClusterFields(labels, written + 1))
    /\ written' = written + 1
    /\ write_log' = Append(write_log, batch[written + 1])
    /\ UNCHANGED << pre, stage, spc, threshold, batch, labels, prior, calls,
                    min_cluster_size, page >>
    /\ UNCHANGED run_vars
    /\ UNCHANGED << other, app_vars, ingest_vars >>

\* the loop is over and the function returns
StageReturn ==
    /\ spc = "update"
    /\ written = Len(batch)
    /\ spc' = "done"
    /\ UNCHANGED << store, pre, stage, threshold, batch, labels, written,
                    write_log, prior, calls, min_cluster_size, page >>
    /\ UNCHANGED run_vars
    /\ UNCHANGED << other, app_vars, ingest_vars >>

\* the process is stopped inside the update loop; what was written stays
StageAbort ==
    /\ spc = "update"
    /\ spc' = "aborted"
    /\ UNCHANGED << store, pre, stage, threshold, batch, labels, written,
                    write_log, prior, calls, min_cluster_size, page >>
    /\ UNCHANGED run_vars
    /\ UNCHANGED << other, app_vars, ingest_vars >>

\* ingest_category inserts one more document, with its embedding
Ingest(doc) ==
    /\ spc \in StageEnded
    /\ Len(store) < NumArticles
    /\ store' = Append(store, doc)
    /\ UNCHANGED pre
    /\ UNCHANGED stage_vars
    /\ UNCHANGED << other, app_vars, ingest_vars >>
    /\ UNCHANGED run_vars

\* ----------------------------------------- a second run_duplicate_detection
\* a second caller enters run_duplicate_detection(mongo_client) while the
\* first may be inside it: lines 74-84 on the collection as it is now
OtherRunDuplicateDetection ==
    /\ other["spc"] = "idle"
    /\ LET arts == fetch_articles_with_embeddings(store)
       IN  other' =
             IF arts = <<>>
             THEN [spc |-> "done", batch |-> arts, labels |-> <<>>,
                   written |-> 0]
             ELSE IF ClusteringRaises(arts)
             THEN [spc |-> "raised", batch |-> arts, labels |-> <<>>,
                   written |-> 0]
             ELSE [spc |-> "update", batch |-> arts,
                   labels |-> perform_duplicate_clustering(store, arts,
                                                           DupThreshold),
                   written |-> 0]
    /\ UNCHANGED << store, pre >>
    /\ UNCHANGED << run_vars, stage_vars, app_vars, ingest_vars >>

\* one turn of the second caller's loop of lines 63-66
OtherUpdateCluster ==
    /\ other["spc"] = "update"
    /\ other["written"] < Len(other["batch"])
    /\ store' = UpdateOne(store, other["batch"][other["written"] + 1],
                          ClusterFields(other["labels"], other["written"] + 1))
    /\ other' = [other EXCEPT !["written"] = @ + 1]
    /\ UNCHANGED pre
    /\ UNCHANGED << run_vars, stage_vars, app_vars, ingest_vars >>

\* the second caller's loop is over and its call returns
OtherReturn ==
    /\ other["spc"] = "update"
    /\ other["written"] = Len(other["batch"])
    /\ other' = [other EXCEPT !["spc"] = "done"]
    /\ UNCHANGED << store, pre >>
    /\ UNCHANGED << run_vars, stage_vars, app_vars, ingest_vars >>

\* ------------------------------------------------- zeroshot_topic_clustering
TOPIC_LABELS ==
    << "sports", "finance", "lifestyle", "music", "technology", "politics",
       "health", "education" >>

\* the fields of {"$set": {"predicted_topic": topic}}
TopicFields(topic) == [predicted_topic |-> topic]

\* zeroshot_topic_clustering(mongo_client) up to its loop: lines 47-52
ZeroshotTopicClustering ==
    /\ EnterStage
    /\ stage' = "labelling"
    /\ batch' = fetch_articles_with_embeddings(store)
    /\ labels' = <<>>
    /\ spc' = "update"
    /\ UNCHANGED << threshold, min_cluster_size >>

\* one turn of the loop of lines 54-65 in which classify_article returns:
\* the best label is one of TOPIC_LABELS, and update_article_topic writes it
ClassifyAndUpdate(topic) ==
    /\ stage = "labelling"
    /\ spc = "update"
    /\ written < Len(batch)
    /\ store' = UpdateOne(store, batch[written + 1], TopicFields(topic))
    /\ written' = written + 1
    /\ write_log' = Append(write_log, batch[written + 1])
    /\ UNCHANGED << pre, stage, spc, threshold, batch, labels, prior, calls,
                    min_cluster_size, page >>
    /\ UNCHANGED run_vars
    /\ UNCHANGED << other, app_vars, ingest_vars >>

\* one turn of the loop in which the classifier raises: nothing in the loop
\* or around it catches, so the exception leaves zeroshot_topic_clustering
ClassifyFails ==
    /\ stage = "labelling"
    /\ spc = "update"
    /\ written < Len(batch)
    /\ spc' = "raised"
    /\ UNCHANGED << store, pre, stage, threshold, batch, labels, written,
                    write_log, prior, calls, min_cluster_size, page >>
    /\ UNCHANGED run_vars
    /\ UNCHANGED << other, app_vars, ingest_vars >>

\* ---------------------------------------------------- perform_topic_grouping
\* hdbscan.HDBSCAN(...).fit_predict on n rows.  The library is taken by its
\* contract, not by the rows' values: a label is -1 (noise) or a cluster
\* number; the numbers used are 0..k-1; every cluster has at least
\* min_cluster_size members; and, as allow_single_cluster is off, the root
\* of the tree is no cluster, so clusters come two or more at a time.
HdbscanLabelings(n, mcs) ==
    {l \in [1..n -> -1..(n \div mcs - 1)] :
        LET used == {l[i] : i \in 1..n} \ {-1}
        IN  /\ used = 0..(Cardinality(used) - 1)
            /\ Cardinality(used) # 1
            /\ \A c \in used : Cardinality({i \in 1..n : l[i] = c}) >= mcs}

\* An empty array is rejected by the input check, and for a single row the
\* query for the min_samples + 1 = 2 nearest neighbours of each row fails:
\* ValueError.
TopicGroupingRaises(arts) == Len(arts) < 2

\* the fields of {"$set": {"topic_cluster_id": topic_cluster_id}} with
\* topic_cluster_id = int(label) if label != -1 else None; the optional
\* value is << >> for None and << k >> for the integer k
TopicClusterFields(labs, i) ==
    [topic_cluster_id |-> IF labs[i] # -1 THEN << labs[i] >> ELSE << >>]

\* a caller runs perform_topic_grouping(embeddings, mcs) on the embeddings of
\* the collection's documents
PerformTopicGrouping(mcs) ==
    /\ EnterStage
    /\ stage' = "grouping"
    /\ min_cluster_size' = mcs
    /\ batch' = fetch_articles_with_embeddings(store)
    /\ IF TopicGroupingRaises(batch')
       THEN /\ spc' = "raised"
            /\ labels' = <<>>
       ELSE /\ spc' = "returned"
            /\ labels' \in HdbscanLabelings(Len(batch'), mcs)
    /\ UNCHANGED threshold

\* run_semantic_grouping(mongo_client): lines 83-106
RunSemanticGrouping ==
    /\ EnterStage
    /\ stage' = "topics"
    /\ min_cluster_size' = RunMinClusterSize
    /\ batch' = fetch_articles_with_embeddings(store)
    /\ IF batch' = <<>>
       THEN /\ spc' = "done"
            /\ labels' = <<>>
       ELSE IF TopicGroupingRaises(batch')
       THEN /\ spc' = "raised"
            /\ labels' = <<>>
       ELSE /\ spc' = "update"
            /\ labels' \in HdbscanLabelings(Len(batch'), RunMinClusterSize)
    /\ UNCHANGED threshold

\* one turn of the loop of lines 72-77
UpdateTopicCluster ==
    /\ stage = "topics"
    /\ spc = "update"
    /\ written < Len(batch)
    /\ store' = UpdateOne(store, batch[written + 1],
                          TopicClusterFields(labels, written + 1))
    /\ written' = written + 1
    /\ write_log' = Append(write_log, batch[written + 1])
    /\ UNCHANGED << pre, stage, spc, threshold, batch, labels, prior, calls,
                    min_cluster_size, page >>
    /\ UNCHANGED run_vars
    /\ UNCHANGED << other, app_vars, ingest_vars >>

\* ------------------------------------------------ fetch_non_featured_articles
\* "regex": "breaking|exclusive|confirmed"
PAGE_KEYWORDS ==
    { <<"b","r","e","a","k","i","n","g">>,
      <<"e","x","c","l","u","s","i","v","e">>,
      <<"c","o","n","f","i","r","m","e","d">> }

\* {"$regexMatch": {"input": "$title", "regex": ..., "options": "i"}}: one
\* of the alternatives occurs in the title, letter case aside; a document
\* without a title does not match
RegexMatch(doc) ==
    /\ Has(doc, "title")
    /\ \E kw \in PAGE_KEYWORDS : Contains(kw, Lower(doc["title"]))

\* the $cond test {"$ifNull": ["$duplicate_cluster_id", False]}: a missing
\* field gives False, and of the integers the field holds $cond takes 0 for
\* false and every other for true
DuplicateCondition(doc) ==
    /\ Has(doc, "duplicate_cluster_id")
    /\ doc["duplicate_cluster_id"] # 0

\* the "score" of $addFields
PresentationScore(doc) ==
    (IF RegexMatch(doc) THEN PageKeywordBoost ELSE 0)
        + (IF DuplicateCondition(doc) THEN PageDuplicateBonus ELSE 0)

\* the $match stage.  ingested_at is "%Y-%m-%d %H:%M:%S" and the bound is
\* "%Y-%m-%d", compared as strings: a document matches when its day is the
\* selected day or a later one.  Days are numbered.
PageMatches(doc, cat, date) ==
    /\ MatchesTopic(doc, cat)
    /\ (~Has(doc, "is_featured") \/ doc["is_featured"] = FALSE)
    /\ Has(doc, "ingested_at")
    /\ doc["ingested_at"] >= date

\* the outcomes of {"$sort": {"score": -1}}: the matching documents by
\* falling score, documents of equal score in any order
SortedByScore(db, ids) ==
    {s \in [1..Cardinality(ids) -> ids] :
        /\ \A i, j \in DOMAIN s : i # j => s[i] # s[j]
        /\ \A i, j \in DOMAIN s :
               i < j => PresentationScore(db[s[i]]) >= PresentationScore(db[s[j]])}

\* fetch_non_featured_articles(category) with the date the sidebar holds:
\* the documents of the result with their score, at most PageLimit of them
FetchNonFeaturedArticles(cat, date) ==
    /\ \E s \in SortedByScore(store,
                   {i \in DOMAIN store : PageMatches(store[i], cat, date)}) :
           page' = [category |-> cat, date |-> date,
                    rows |-> [k \in 1..Min(Len(s), PageLimit) |->
                                 [id |-> s[k], doc |-> store[s[k]],
                                  score |-> PresentationScore(store[s[k]])]]]
    /\ UNCHANGED << store, pre, stage, spc, threshold, batch, labels, written,
                    write_log, prior, calls, min_cluster_size >>
    /\ UNCHANGED run_vars
    /\ UNCHANGED << other, app_vars, ingest_vars >>

\* --------------------------------------------------------- specification
\* The documents a collection is drawn from, as ingestion and topic labelling
\* leave them (both write only documents that have an embedding):
\*   sports, similar to the next one, "BREAKING: Fire" / "calm"
\*   sports, similar to the one before, "Rain Just" / " IN now"
\*   sports, similar to neither, "Fire" / "calm"
\*   finance, "Fire" / "calm"
\*   not labelled yet, "Fire" / "calm"
Documents ==
    { [predicted_topic |-> "sports", embedding |-> <<2, 1>>,
       title |-> TitleBreaking, text |-> TextPlain],
      [predicted_topic |-> "sports", embedding |-> <<1, 1>>,
       title |-> TitleJust, text |-> TextIn],
      [predicted_topic |-> "sports", embedding |-> <<1, 0>>,
       title |-> TitlePlain, text |-> TextPlain],
      [predicted_topic |-> "finance", embedding |-> <<1, 1>>,
       title |-> TitlePlain, text |-> TextPlain],
      [embedding |-> <<1, 0>>, title |-> TitlePlain, text |-> TextPlain] }

InitRun ==
    /\ argsort_stable \in BOOLEAN
    /\ clock = 0
    /\ pc = "idle"
    /\ category = "none"
    /\ top_k = 0
    /\ articles = <<>>
    /\ freq_scores = <<>>
    /\ highlight_ids = <<>>
    /\ now_str = 0
    /\ done_writes = 0
    /\ todo = <<>>
    /\ order = <<>>
    /\ last_run = NoRun
    /\ set_at = [i \in ArticleIds |-> 0]

\* A collection other writers share may also hold a labelled document that
\* has no embedding field.
ForeignDocuments ==
    Documents \cup
    { [predicted_topic |-> "sports", title |-> TitleJust, text |-> TextIn] }

\* no annotation stage has run
InitStage ==
    /\ stage = "none"
    /\ spc = "idle"
    /\ threshold = DupThreshold
    /\ batch = <<>>
    /\ labels = <<>>
    /\ written = 0
    /\ write_log = <<>>
    /\ prior = [outcome |-> "none", batch |-> <<>>, written |-> 0]
    /\ calls = 0
    /\ min_cluster_size = DefaultMinClusterSize
    /\ page = NoPage

\* no second caller, no button pressed, no ingestion begun
NoOther == [spc |-> "idle", batch |-> <<>>, labels |-> <<>>, written |-> 0]

InitIdle ==
    /\ other = NoOther
    /\ app_pc = "idle"
    /\ executed = <<>>
    /\ ing_pc = "idle"
    /\ ing_category = "none"
    /\ ing_limit = 0
    /\ urls = <<>>
    /\ stored_count = 0
    /\ to_vectorize = <<>>
    /\ ing_calls = 0

InitForeign ==
    /\ store \in [ArticleIds -> ForeignDocuments]
    /\ pre = store
    /\ InitRun
    /\ InitStage
    /\ InitIdle

Init ==
    /\ store \in [ArticleIds -> Documents]
    /\ pre = store
    /\ InitRun
    /\ InitStage
    /\ InitIdle

Next ==
    \/ \E cat \in Categories, k \in 0..MaxTopK : UpdateFeaturedHighlights(cat, k)
    \/ GetHighlights
    \/ PersistOne
    \/ Return
    \/ Abort
    \/ \E o \in Orders : RunHighlightsForAllCategories(o)
    \/ NextCategory

Spec == Init /\ [][Next]_vars

SpecForeign == InitForeign /\ [][Next]_vars

\* ------------------------------------- perform_duplicate_clustering, called
\* The embeddings of the batches: the three of the repository's test (its
\* [0.1, 0.1, 0.1], [0.9, 0, 0] and [0.2, 0.2, 0.2], in tenths) and five
\* directions around [0.9, 0, 0] whose cosines are fractions.
ClusterEmbeddings ==
    { <<1, 1, 1>>, <<2, 2, 2>>, <<9, 0, 0>>, <<15, 8, 0>>, <<15, 0, 8>>,
      <<12, 0, 5>>, <<12, 5, 0>>, <<4, 3, 0>> }

\* DUMMY_ARTICLES of the test
DUMMY_ARTICLES ==
    << [embedding |-> <<1, 1, 1>>], [embedding |-> <<1, 1, 1>>],
       [embedding |-> <<9, 0, 0>>], [embedding |-> <<9, 0, 0>>],
       [embedding |-> <<2, 2, 2>>] >>

\* the thresholds a caller passes: the default, and 0.8
Thresholds == {DupThreshold, 800}

InitCluster ==
    /\ store \in UNION {[1..n -> {[embedding |-> e] : e \in ClusterEmbeddings}]
                            : n \in 0..MaxBatch}
                 \cup {DUMMY_ARTICLES}
    /\ pre = store
    /\ InitRun
    /\ argsort_stable
    /\ InitStage
    /\ InitIdle

\* a caller runs perform_duplicate_clustering(articles, th) on the documents
\* of the collection
PerformDuplicateClustering(th) ==
    /\ stage = "none"
    /\ stage' = "clustering"
    /\ threshold' = th
    /\ batch' = fetch_articles_with_embeddings(store)
    /\ IF ClusteringRaises(batch')
       THEN /\ spc' = "raised"
            /\ labels' = <<>>
       ELSE /\ spc' = "returned"
            /\ labels' = perform_duplicate_clustering(store, batch', th)
    /\ UNCHANGED << store, pre, written, write_log, prior, calls,
                    min_cluster_size, page >>
    /\ UNCHANGED run_vars
    /\ UNCHANGED << other, app_vars, ingest_vars >>

NextCluster == \E th \in Thresholds : PerformDuplicateClustering(th)

SpecCluster == InitCluster /\ [][NextCluster]_vars

\* ---------------------------------------------------- duplicate detection
\* The documents ingestion inserts: two near-duplicates (cosine similarity
\* 12/13) and one unlike both.
DupDocuments ==
    { [embedding |-> <<9, 0, 0>>], [embedding |-> <<12, 5, 0>>],
      [embedding |-> <<1, 1, 1>>] }

\* the labels a direct caller of update_articles_with_clusters passes
CallerLabels == 0..MaxLabel

InitDup ==
    /\ store \in UNION {[1..n -> DupDocuments] : n \in 0..NumArticles}
    /\ pre = store
    /\ InitRun
    /\ argsort_stable
    /\ InitStage
    /\ InitIdle

NextDup ==
    \/ \E doc \in DupDocuments : Ingest(doc)
    \/ RunDuplicateDetection
    \/ UpdateCluster
    \/ StageReturn
    \/ StageAbort

SpecDup == InitDup /\ [][NextDup]_vars

\* --------------------------------------------------- two callers of a stage
\* nothing in the code keeps a second caller out while a run is under way
NextConcurrent ==
    \/ \E doc \in DupDocuments : Ingest(doc)
    \/ RunDuplicateDetection
    \/ UpdateCluster
    \/ StageReturn
    \/ OtherRunDuplicateDetection
    \/ OtherUpdateCluster
    \/ OtherReturn

SpecConcurrent == InitDup /\ [][NextConcurrent]_vars

\* ------------------------------- update_articles_with_clusters, called
\* the collection as a completed run_duplicate_detection leaves it
Annotated(db) ==
    LET arts == fetch_articles_with_embeddings(db)
        labs == perform_duplicate_clustering(db, arts, DupThreshold)
    IN  [i \in DOMAIN db |-> SetFields(db[i], ClusterFields(labs, i))]

\* the collection is as ingestion, or a run of the stage after it, left it
InitUpdate ==
    /\ \E db \in UNION {[1..n -> DupDocuments] : n \in 0..NumArticles} :
           \/ store = db
           \/ Len(db) >= 2 /\ store = Annotated(db)
    /\ pre = store
    /\ InitRun
    /\ argsort_stable
    /\ InitStage
    /\ InitIdle

NextUpdate ==
    \/ /\ calls < MaxUpdateCalls
       /\ \E S \in SUBSET DOMAIN store :
              \E labs \in [1..Cardinality(S) -> CallerLabels] :
                  UpdateArticlesWithClusters(InOrder(S), labs)
    \/ UpdateCluster
    \/ StageReturn
    \/ StageAbort

SpecUpdate == InitUpdate /\ [][NextUpdate]_vars

\* ------------------------------------------------------- zero-shot labelling
\* documents as ingestion leaves them, with or without an embedding, and as
\* an earlier labelling leaves them
LabelDocuments ==
    { [title |-> "t"],
      [title |-> "t", embedding |-> <<1, 1, 1>>],
      [title |-> "t", embedding |-> <<1, 1, 1>>, predicted_topic |-> "sports"] }

InitLabel ==
    /\ store \in UNION {[1..n -> LabelDocuments] : n \in 0..MaxLabelBatch}
    /\ pre = store
    /\ InitRun
    /\ argsort_stable
    /\ InitStage
    /\ InitIdle

NextLabel ==
    \/ ZeroshotTopicClustering
    \/ \E i \in DOMAIN TOPIC_LABELS : ClassifyAndUpdate(TOPIC_LABELS[i])
    \/ ClassifyFails
    \/ StageReturn
    \/ StageAbort

SpecLabel == InitLabel /\ [][NextLabel]_vars

\* --------------------------------------------------------- topic grouping
\* the min_cluster_size a caller passes: the default and the pipeline's
MinClusterSizes == {DefaultMinClusterSize, RunMinClusterSize}

InitTopics ==
    /\ store \in UNION {[1..n -> {[embedding |-> <<1, 1, 1>>]}]
                            : n \in 0..MaxTopicBatch}
    /\ pre = store
    /\ InitRun
    /\ argsort_stable
    /\ InitStage
    /\ InitIdle

NextTopics ==
    \/ \E mcs \in MinClusterSizes : PerformTopicGrouping(mcs)
    \/ RunSemanticGrouping
    \/ UpdateTopicCluster
    \/ StageReturn
    \/ StageAbort

SpecTopics == InitTopics /\ [][NextTopics]_vars

\* ------------------------------------------------------------ the dashboard
\* documents as ingestion and labelling leave them; the last has no embedding
PageDocuments ==
    { [title |-> TitleBreaking, predicted_topic |-> "sports",
       ingested_at |-> 2, embedding |-> <<9, 0, 0>>],
      [title |-> TitlePlain, predicted_topic |-> "sports",
       ingested_at |-> 2, embedding |-> <<1, 1, 1>>],
      [title |-> TitlePlain, predicted_topic |-> "sports",
       ingested_at |-> 1, embedding |-> <<9, 0, 0>>, is_featured |-> FALSE],
      [title |-> TitleBreaking, predicted_topic |-> "finance",
       ingested_at |-> 2, embedding |-> <<1, 1, 1>>, is_featured |-> TRUE],
      [title |-> TitlePlain, predicted_topic |-> "sports",
       ingested_at |-> 2] }

\* the days the sidebar's date can be
PageDates == 1..2

InitPage ==
    /\ store \in UNION {[1..n -> PageDocuments] : n \in 0..MaxPageArticles}
    /\ pre = store
    /\ InitRun
    /\ argsort_stable
    /\ InitStage
    /\ InitIdle

\* the dashboard reads the collection while the pipeline annotates it
NextPage ==
    \/ RunDuplicateDetection
    \/ UpdateCluster
    \/ StageReturn
    \/ StageAbort
    \/ \E cat \in Categories, date \in PageDates :
           FetchNonFeaturedArticles(cat, date)

SpecPage == InitPage /\ [][NextPage]_vars

\* --------------------------------------------------------------- the button
NextApp ==
    \/ PressButton
    \/ RunHighlight
    \/ GetHighlights
    \/ PersistOne
    \/ Return
    \/ NextCategory
    \/ ReportSuccess
    \/ ReportError

\* the collection may hold a labelled document without an embedding
SpecApp == InitForeign /\ [][NextApp]_vars

\* ---------------------------------------------------------------- ingestion
\* the urls a search returns
Urls == {"u1", "u2"}

\* the result lists of google_news_urls, a url may repeat
SearchResults == UNION {[1..n -> Urls] : n \in 0..MaxUrls}

\* the collection is empty or holds an article an earlier ingestion stored
InitIngest ==
    /\ store \in {<<>>, << ArticleData("u1", "sports") >>}
    /\ pre = store
    /\ InitRun
    /\ argsort_stable
    /\ InitStage
    /\ InitIdle

NextIngest ==
    \/ \E cat \in Categories, lim \in 0..MaxLimit, found \in SearchResults :
           IngestCategory(cat, lim, found)
    \/ IngestLoopExit
    \/ \E known \in BOOLEAN : IngestSkip(known)
    \/ IngestStore
    \/ \E fails \in BOOLEAN : UpsertToVectorStore(fails)

SpecIngest == InitIngest /\ [][NextIngest]_vars

\* ------------------------------------------- labelling and highlight runs
\* the labels the classifier answers with here: the categories the runs are
\* asked for
RelabelTopics == Categories

\* labelled documents with an embedding, two of each category
RelabelDocuments ==
    { [predicted_topic |-> "sports", embedding |-> <<1, 0>>,
       title |-> TitlePlain, text |-> TextPlain],
      [predicted_topic |-> "finance", embedding |-> <<1, 1>>,
       title |-> TitlePlain, text |-> TextPlain] }

InitRelabel ==
    /\ store \in [ArticleIds -> RelabelDocuments]
    /\ pre = store
    /\ InitRun
    /\ InitStage
    /\ InitIdle

\* the callers run one function at a time: labelling runs and
\* single-category highlight runs with top_k >= 1
NextRelabel ==
    \/ /\ spc \in StageEnded
       /\ \E cat \in Categories, k \in 1..MaxTopK :
              UpdateFeaturedHighlights(cat, k)
    \/ GetHighlights
    \/ PersistOne
    \/ Return
    \/ /\ pc \in {"idle", "done"}
       /\ calls < MaxRelabelRuns
       /\ ZeroshotTopicClustering
    \/ \E topic \in RelabelTopics : ClassifyAndUpdate(topic)
    \/ StageReturn

SpecRelabel == InitRelabel /\ [][NextRelabel]_vars




\* ================================================================ claims
\* the documents of the current run's category
InCategory == {i \in ArticleIds : MatchesTopic(store[i], category)}

\* C1: featured status is not cumulative.  When update_featured_highlights
\* has completed, the category's featured documents are exactly the ones
\* this run selected, and every document of the category that was featured
\* before the run and was not reselected has is_featured = False.
C1_NotCumulative ==
    pc = "done" =>
        /\ FeaturedIn(store, category) = Range(highlight_ids)
        /\ \A i \in FeaturedIn(pre, category) \ Range(highlight_ids) :
               /\ Has(store[i], "is_featured")
               /\ store[i]["is_featured"] = FALSE

\* a completed run that dropped a document an earlier run had featured and
\* featured another
C1_Witness ==
    /\ pc = "done"
    /\ highlight_ids # <<>>
    /\ FeaturedIn(pre, category) \ Range(highlight_ids) # {}

\* C2: for top_k >= 1 and a category of n >= 1 documents (all with an
\* embedding), a completed run leaves exactly min(top_k, n) documents of the
\* category featured, and no run raises.
C2_FeaturesMinKN ==
    /\ pc # "raised"
    /\ (pc = "done" /\ top_k >= 1 /\ InCategory # {}) =>
          Cardinality(FeaturedIn(store, category))
            = Min(top_k, Cardinality(InCategory))

\* a completed run over a category of two documents with a larger top_k
C2_Witness ==
    /\ pc = "done"
    /\ Cardinality(InCategory) = 2
    /\ top_k > 2
    /\ Cardinality(FeaturedIn(store, category)) = 2

\* C3: idempotence.  A run that completes right after a completed run of the
\* same category and top_k leaves the same documents featured as that run did.
C3_Idempotent ==
    (pc = "done" /\ last_run.category = category /\ last_run.top_k = top_k) =>
        FeaturedIn(store, category) = last_run.featured

\* two completed runs in a row of one category and top_k that select some of
\* the category's documents and leave others out
C3_Witness ==
    /\ pc = "done"
    /\ last_run.category = category
    /\ last_run.top_k = top_k
    /\ last_run.featured # {}
    /\ InCategory \ last_run.featured # {}

\* get_highlights has scored and ranked the documents of the current run
Scored == pc \in {"persist", "done"} /\ articles # <<>>

\* does s hold the phrase kw at offset off, letter case ignored
MatchesAt(kw, s, off) ==
    /\ off + Len(kw) - 1 <= Len(s)
    /\ \A p \in 1..Len(kw) : LowerChar(s[off + p - 1]) = LowerChar(kw[p])

\* the document's title+text holds one of the fixed phrases, case ignored
HasKeywordPhrase(doc) ==
    \E kw \in HIGHLIGHT_KEYWORDS :
        \E off \in 1..Len(doc["title"] \o doc["text"]) :
            MatchesAt(kw, doc["title"] \o doc["text"], off)

BoostOf(i) == IF HasKeywordPhrase(store[articles[i]]) THEN 5 ELSE 0

\* the other found documents whose cosine similarity to the i-th exceeds 0.9
SimilarOthers(i) ==
    {j \in (1..Len(articles)) \ {i} :
        SimAbove(store[articles[i]]["embedding"], store[articles[j]]["embedding"])}

\* C4 as stated: every document of the category scores (number of OTHER
\* documents of the category more than 0.9 similar to it) + (5 if its
\* title+text holds a keyword phrase, case ignored, else 0).
C4_ScoreCountsOthers ==
    Scored =>
        /\ Range(articles) = InCategory
        /\ \A i \in 1..Len(articles) :
               freq_scores[i] = Cardinality(SimilarOthers(i)) + BoostOf(i)

\* C4 as amended: the count includes the document itself (its similarity to
\* itself is 1, above the threshold), so every document of the category
\* scores 1 + (number of other similar documents) + (5 for a keyword phrase).
C4_ScoreCountsSelf ==
    Scored =>
        /\ Range(articles) = InCategory
        /\ Len(freq_scores) = Len(articles)
        /\ \A i \in 1..Len(articles) :
               freq_scores[i] = 1 + Cardinality(SimilarOthers(i)) + BoostOf(i)

\* a scored category with a boosted document that has a similar neighbour,
\* and a document with neither
C4_Witness ==
    /\ Scored
    /\ \E i, j \in 1..Len(articles) :
          /\ BoostOf(i) = 5 /\ SimilarOthers(i) # {}
          /\ BoostOf(j) = 0 /\ SimilarOthers(j) = {}

\* the position in articles of a found document
IndexOf(id) == CHOOSE i \in 1..Len(articles) : articles[i] = id

ScoreOf(id) == freq_scores[IndexOf(id)]

Selected(id) == id \in Range(highlight_ids)

\* the highlights are in descending order of score
RankedDescending ==
    \A p, q \in 1..Len(highlight_ids) :
        p < q => ScoreOf(highlight_ids[p]) >= ScoreOf(highlight_ids[q])

\* C5 as stated: the highlights are the top_k by descending score, and of two
\* documents with equal score the one earlier in find order ranks first and
\* is the one kept at the cut.
C5_EarlierWinsTies ==
    Scored =>
        /\ RankedDescending
        /\ \A a, b \in Range(articles) :
               (a < b /\ ScoreOf(a) = ScoreOf(b) /\ Selected(b)) => Selected(a)
        /\ \A p, q \in 1..Len(highlight_ids) :
               (p < q /\ ScoreOf(highlight_ids[p]) = ScoreOf(highlight_ids[q]))
                  => highlight_ids[p] < highlight_ids[q]

\* C5 as amended: the highlights are in descending order of score, no
\* document left out scores higher than one taken, and for top_k >= 1 there
\* are min(top_k, n) of them; nothing is promised about equal scores.
C5_TopByScore ==
    Scored =>
        /\ RankedDescending
        /\ \A a, b \in Range(articles) :
               (Selected(a) /\ ~Selected(b)) => ScoreOf(a) >= ScoreOf(b)
        /\ top_k >= 1 => Len(highlight_ids) = Min(top_k, Len(articles))
        /\ Cardinality(Range(highlight_ids)) = Len(highlight_ids)

\* two documents tie at the cut and the later one is taken, the earlier not
C5_Witness ==
    /\ Scored
    /\ \E a, b \in Range(articles) :
          a < b /\ ScoreOf(a) = ScoreOf(b) /\ Selected(b) /\ ~Selected(a)

Breaking == <<"b","r","e","a","k","i","n","g">>

\* the title holds the word "breaking" in any letter case, then other text
TitleHasBreaking(doc) ==
    \E off \in 1..Len(doc["title"]) :
        /\ MatchesAt(Breaking, doc["title"], off)
        /\ off + Len(Breaking) - 1 < Len(doc["title"])

\* C6: a document whose title holds "BREAKING: ..." gets the +5 keyword boost
\* in its score.
C6_BreakingBoosted ==
    Scored =>
        \A i \in 1..Len(articles) :
            TitleHasBreaking(store[articles[i]]) =>
                freq_scores[i] = 1 + Cardinality(SimilarOthers(i)) + KeywordBoost

\* C7: a run for a category with no documents is a no-op: it raises nothing
\* and, at every point of it, the collection is as it was when it began.
C7_EmptyCategoryNoOp ==
    (pc # "idle" /\ Find(pre, category) = <<>>) =>
        /\ pc # "raised"
        /\ store = pre

\* a completed run for an empty category, beside a category that has
\* featured documents
C7_Witness ==
    /\ pc = "done"
    /\ InCategory = {}
    /\ \E i \in ArticleIds : IsFeatured(store[i])

\* what one run of category c with the default top_k selects
DefaultHighlights(c) ==
    Range(HighlightIds(Find(store, c), FreqScores(store, Find(store, c)),
                       DefaultTopK, argsort_stable))

\* C8: runs are independent per category.  A run for a category changes no
\* field of a document of another category (or of none), and when
\* run_highlights_for_all_categories has gone through its list, in whichever
\* order, a document of a listed category is featured exactly if a run of
\* its own category alone selects it.
C8_IndependentPerCategory ==
    /\ pc # "idle" =>
          \A i \in ArticleIds :
              ~MatchesTopic(pre[i], category) => store[i] = pre[i]
    /\ (pc = "done" /\ order # <<>> /\ todo = <<>>) =>
          \A i \in ArticleIds : \A c \in Range(order) :
              MatchesTopic(store[i], c) =>
                  (IsFeatured(store[i]) <=> i \in DefaultHighlights(c))

\* the loop has gone through finance, then sports, and both have featured
\* documents
C8_Witness ==
    /\ pc = "done"
    /\ order = <<"finance", "sports">>
    /\ todo = <<>>
    /\ FeaturedIn(store, "finance") # {}
    /\ FeaturedIn(store, "sports") # {}

\* C9: in every state, a featured document has featured_at, and it is the
\* timestamp of the run that last set its is_featured to True; the documents
\* the current run has written all carry that run's timestamp.
C9_FeaturedAtIsRunStamp ==
    /\ \A i \in ArticleIds :
          IsFeatured(store[i]) =>
              /\ Has(store[i], "featured_at")
              /\ set_at[i] > 0
              /\ store[i]["featured_at"] = set_at[i]
    /\ \A p \in 1..done_writes :
          /\ Has(store[highlight_ids[p]], "featured_at")
          /\ store[highlight_ids[p]]["featured_at"] = now_str

\* after an aborted run, documents featured by two different runs
C9_Witness ==
    /\ pc = "aborted"
    /\ \E i, j \in ArticleIds :
          /\ IsFeatured(store[i]) /\ IsFeatured(store[j])
          /\ store[i]["featured_at"] = 1
          /\ store[j]["featured_at"] = 2

\* C10: a document of the category without an embedding is left out of the
\* ranking: it is never featured, and a run (top_k >= 1) of a category that
\* also has documents with an embedding ends normally with some of those
\* featured.
C10_NoEmbeddingExcluded ==
    /\ \A i \in ArticleIds :
          ~Has(store[i], "embedding") => ~IsFeatured(store[i])
    /\ ( /\ pc \in {"done", "raised"}
         /\ top_k >= 1
         /\ \E i \in InCategory : Has(store[i], "embedding") )
       => /\ pc = "done"
          /\ \E i \in InCategory :
                Has(store[i], "embedding") /\ IsFeatured(store[i])

\* ------------------------------------------------------------ clustering
\* perform_duplicate_clustering has returned to its caller
Clustered == stage = "clustering" /\ spc = "returned"

EmbeddingAt(i) == store[batch[i]]["embedding"]

\* C11: perform_duplicate_clustering returns one integer label per article
\* of the batch, in the batch's order: position i holds article i's label, so
\* two articles with the same embedding vector have the same label; for the
\* test's five articles at threshold 0.85 the first two share a label, the
\* next two share a label, and there are two or three labels in all.
C11_OneLabelPerArticle ==
    Clustered =>
        /\ Len(labels) = Len(batch)
        /\ \A i \in 1..Len(labels) : labels[i] \in Nat
        /\ \A i, j \in 1..Len(batch) :
               EmbeddingAt(i) = EmbeddingAt(j) => labels[i] = labels[j]
        /\ (store = DUMMY_ARTICLES /\ threshold = DupThreshold) =>
               /\ labels[1] = labels[2]
               /\ labels[3] = labels[4]
               /\ Cardinality(Range(labels)) \in {2, 3}

\* the test's five articles have been clustered, into two groups
C11_Witness ==
    /\ Clustered
    /\ store = DUMMY_ARTICLES
    /\ threshold = DupThreshold
    /\ labels[1] = labels[2]
    /\ labels[1] # labels[3]
    /\ Cardinality(Range(labels)) = 2

\* the cosine similarity of the batch's articles i and j, in 1/Scale
SimilarityAt(i, j) == CosineSimilarity(EmbeddingAt(i), EmbeddingAt(j))

\* C12: two articles of a batch whose cosine similarity is at least the
\* threshold (exactly the threshold included) have the same label, whatever
\* else the batch holds.
C12_SimilarPairsShareLabel ==
    Clustered =>
        \A i, j \in 1..Len(batch) :
            SimilarityAt(i, j) >= threshold => labels[i] = labels[j]

\* the articles a chain of pairs closer than the cutoff 1 - threshold leads
\* to from the articles of S
RECURSIVE ChainedFrom(_)
ChainedFrom(S) ==
    LET more == {j \in 1..Len(batch) :
                    \E i \in S : Scale - SimilarityAt(i, j) < Scale - threshold}
    IN  IF more \subseteq S THEN S ELSE ChainedFrom(S \cup more)

\* C13: clusters stay within the threshold's closure.  Two articles get the
\* same label only if a chain of articles of the batch links them in which
\* each article is at a cosine distance below 1 - threshold from the next.
C13_WithinClosure ==
    Clustered =>
        \A i, j \in 1..Len(batch) :
            labels[i] = labels[j] => j \in ChainedFrom({i})

\* two articles less similar than the threshold share a label, through a
\* third one close to both
C13_Witness ==
    /\ Clustered
    /\ \E i, j \in 1..Len(batch) :
           /\ labels[i] = labels[j]
           /\ SimilarityAt(i, j) < threshold
           /\ j \in ChainedFrom({i})

\* the orders a batch of n articles can be passed in
BatchOrders(n) ==
    {f \in [1..n -> 1..n] : \A i, j \in 1..n : i # j => f[i] # f[j]}

\* the labels of the batch passed in the order f: position i holds the label
\* of the article that is at position f[i] of the batch
LabelsPermuted(f) ==
    perform_duplicate_clustering(store, [i \in 1..Len(batch) |-> batch[f[i]]],
                                 threshold)

\* passed in the order f, the batch is grouped as it was
SamePartition(f) ==
    LET permuted == LabelsPermuted(f)
    IN  \A i, j \in 1..Len(batch) :
            (permuted[i] = permuted[j]) <=> (labels[f[i]] = labels[f[j]])

SimilarityTransitive ==
    \A i, j, k \in 1..Len(batch) :
        (SimilarityAt(i, j) > threshold /\ SimilarityAt(j, k) > threshold)
            => SimilarityAt(i, k) > threshold

ClusterIdIs(doc, v) ==
    Has(doc, "duplicate_cluster_id") /\ doc["duplicate_cluster_id"] = v

\* C15: a batch of one article is clustered without error into the single
\* label 0: run_duplicate_detection on a collection whose only article with
\* an embedding is that one does not raise, and when it has returned the
\* article's duplicate_cluster_id is 0.
C15_SingleArticleLabelledZero ==
    (stage = "duplicates" /\ Len(batch) = 1) =>
        /\ spc # "raised"
        /\ spc = "done" => ClusterIdIs(store[batch[1]], 0)

\* update_articles_with_clusters, called by a caller, has returned
Updated == stage = "update_clusters" /\ spc = "done"

\* C16: when update_articles_with_clusters(db, "articles", articles, labels)
\* has returned, the record of articles[i] has duplicate_cluster_id ==
\* labels[i] for every position i, update_one was called once for each
\* article, and every other record is as it was before the call.
C16_EachArticleItsLabel ==
    Updated =>
        /\ \A i \in 1..Len(batch) : ClusterIdIs(store[batch[i]], labels[i])
        /\ write_log = batch
        /\ \A k \in DOMAIN store : k \notin Range(batch) => store[k] = pre[k]

\* two of three articles were passed with different labels, one of them had
\* another label before, and the third article keeps the label it had
C16_Witness ==
    /\ Updated
    /\ Len(batch) = 2
    /\ Len(store) = 3
    /\ labels[1] # labels[2]
    /\ \E i \in 1..2 : Has(pre[batch[i]], "duplicate_cluster_id")
                       /\ ~ClusterIdIs(pre[batch[i]], labels[i])
    /\ \E k \in DOMAIN store :
           k \notin Range(batch) /\ Has(store[k], "duplicate_cluster_id")

\* run_duplicate_detection has returned after writing its labels, and the
\* collection holds the articles it fetched and no other
Detected ==
    /\ stage = "duplicates"
    /\ spc = "done"
    /\ batch # <<>>
    /\ fetch_articles_with_embeddings(store) = batch

\* the labels one uninterrupted run over the collection writes
OneRunLabels ==
    perform_duplicate_clustering(store, fetch_articles_with_embeddings(store),
                                 DupThreshold)

\* C17: the stage is safe to rerun after a crash.  When a run over the
\* articles of a run stopped after any number of its writes has completed,
\* every article has the duplicate_cluster_id one uninterrupted run over the
\* collection writes: no label of the stopped run or of an earlier run is
\* left.
C17_RerunRecomputesAll ==
    (Detected /\ prior.outcome = "aborted" /\ prior.batch = batch) =>
        \A i \in 1..Len(batch) : ClusterIdIs(store[batch[i]], OneRunLabels[i])

\* a run was stopped after a write, and the run after it, over the same
\* articles, has completed and has replaced a label that was in the collection
\* when it began
C17_Witness ==
    /\ Detected
    /\ prior.outcome = "aborted"
    /\ prior.written > 0
    /\ prior.batch = batch
    /\ \E i \in DOMAIN store :
           /\ i \in DOMAIN pre
           /\ Has(pre[i], "duplicate_cluster_id")
           /\ ~ClusterIdIs(store[i], pre[i]["duplicate_cluster_id"])

\* ------------------------------------------------------- zero-shot labelling
\* C18: a classification failure does not abort the batch: whenever
\* zeroshot_topic_clustering has ended on its own it has returned, and every
\* article of the batch was either classified and written or skipped with
\* the predicted_topic it had (or none).
C18_FailureSkipsArticle ==
    (stage = "labelling" /\ spc \in {"done", "raised"}) =>
        /\ spc = "done"
        /\ \A i \in 1..Len(batch) :
               \/ /\ \E k \in 1..Len(write_log) : write_log[k] = batch[i]
                  /\ Has(store[batch[i]], "predicted_topic")
                  /\ \E t \in DOMAIN TOPIC_LABELS :
                         store[batch[i]]["predicted_topic"] = TOPIC_LABELS[t]
               \/ store[batch[i]] = pre[batch[i]]

\* --------------------------------------------------------- topic grouping
\* C19: a corpus of fewer articles than min_cluster_size is grouped without
\* error, every article is labelled noise, and when the stage has returned
\* every article of the batch has topic_cluster_id = None.
C19_SmallCorpusAllNoise ==
    (stage \in {"grouping", "topics"}
        /\ batch # <<>> /\ Len(batch) < min_cluster_size) =>
        /\ spc # "raised"
        /\ \A i \in 1..Len(labels) : labels[i] = -1
        /\ (stage = "topics" /\ spc = "done") =>
               \A i \in 1..Len(batch) :
                   /\ Has(store[batch[i]], "topic_cluster_id")
                   /\ store[batch[i]]["topic_cluster_id"] = << >>

\* ------------------------------------------------------------ the dashboard
\* C20: every article of the dashboard's non-featured result has the score
\* (5 if a keyword is in its title, else 0) + (1 if its duplicate_cluster_id
\* is set, whatever the value, else 0).
C20_AnyClusterIdScoresOne ==
    \A k \in 1..Len(page.rows) :
        page.rows[k].score =
            (IF RegexMatch(page.rows[k].doc) THEN 5 ELSE 0)
                + (IF Has(page.rows[k].doc, "duplicate_cluster_id")
                   THEN 1 ELSE 0)

\* ------------------------------------------------------- the highlight run
\* C26: for every top_k >= 0, 0 included, a completed run of
\* update_featured_highlights(category, top_k) leaves no more than top_k
\* documents of the category featured.
C26_AtMostTopK ==
    pc = "done" => Cardinality(FeaturedIn(store, category)) <= top_k

\* the documents the current run has set is_featured on so far
PersistedSoFar == Range(SubSeq(highlight_ids, 1, done_writes))

\* C28: from the reset on, at every point of a run and after it stopped for
\* any reason, the category's featured documents are the selected documents
\* written so far, so a subset of this run's selection, and a document
\* featured before the run that is not reselected is featured with none of
\* them; nothing is scored or selected before the reset, and nothing is
\* persisted before the selection.
C28_ResetScoreSelectPersist ==
    pc # "idle" =>
        /\ FeaturedIn(store, category) = PersistedSoFar
        /\ PersistedSoFar \subseteq Range(highlight_ids)
        /\ \A i \in FeaturedIn(pre, category) \ Range(highlight_ids) :
               ~IsFeatured(store[i])
        /\ pc = "get" => (highlight_ids = <<>> /\ done_writes = 0)

\* a run stopped between two of its writes, one new winner featured, while
\* a document featured by the run before it was not reselected
C28_Witness ==
    /\ pc = "aborted"
    /\ done_writes >= 1
    /\ done_writes < Len(highlight_ids)
    /\ FeaturedIn(pre, category) \ Range(highlight_ids) # {}

\* ------------------------------------------------------- zero-shot labelling
\* C24: a labelling run fetches and classifies only articles without a
\* predicted_topic: an article that had one when the run began is not in the
\* batch and keeps it.
C24_LabelledLeftAlone ==
    stage = "labelling" =>
        \A i \in DOMAIN store :
            Has(pre[i], "predicted_topic") =>
                /\ \A k \in 1..Len(batch) : batch[k] # i
                /\ store[i]["predicted_topic"] = pre[i]["predicted_topic"]

\* --------------------------------------------------------------- the button
\* C23: when the button's handler reports success it has executed
\* ingestion, duplicate detection, topic grouping, topic labelling and
\* highlight selection, each once and in that order.
C23_FullPipelineBeforeSuccess ==
    app_pc = "success" => executed = PipelineStages

\* ---------------------------------------------------------------- ingestion
\* the documents the current call of ingest_category has added
InsertedByCall == (Len(pre) + 1)..Len(store)

\* C22: a call of ingest_category(collection, category, limit) that has
\* returned has inserted at most limit documents, each with the given
\* category and a non-empty embedding; and no url makes the loop raise.
C22_AtMostLimitInserted ==
    /\ (ing_pc = "raised") => urls = <<>> \/ stored_count >= ing_limit
    /\ ing_pc = "done" =>
          /\ Cardinality(InsertedByCall) <= ing_limit
          /\ \A i \in InsertedByCall :
                 /\ store[i]["category"] = ing_category
                 /\ store[i]["embedding"] # <<>>

\* C25: after any sequence of calls of ingest_category, the upsert at the end
\* of each included, the collection holds at most one document per url.
C25_OneDocumentPerUrl ==
    ing_pc \in IngestEnded =>
        \A i, j \in DOMAIN store :
            store[i]["url"] = store[j]["url"] => i = j

\* --------------------------------------------------- two callers of a stage
\* both callers' runs of run_duplicate_detection have returned
BothReturned ==
    stage = "duplicates" /\ spc = "done" /\ other["spc"] = "done"

\* the label the first caller's last run computed for document i, if any
LabelOfFirst(i) == {labels[k] : k \in {n \in 1..Len(batch) : batch[n] = i}}

\* the label the second caller's run computed for document i, if any
LabelOfOther(i) ==
    {other["labels"][k] :
        k \in {n \in 1..Len(other["batch"]) : other["batch"][n] = i}}

\* the articles both runs labelled
Overlap == Range(batch) \cap Range(other["batch"])

\* C21: there is no locking and the last writer wins per document: when two
\* runs of the duplicate detection have interleaved and both returned, every
\* article either run labelled holds the label one of the two runs computed
\* for it, each article on its own, so the stored labelling can be that of
\* neither run.
C21_LastWriterWinsPerDocument ==
    BothReturned =>
        \A i \in Range(batch) \cup Range(other["batch"]) :
            /\ Has(store[i], "duplicate_cluster_id")
            /\ store[i]["duplicate_cluster_id"]
                   \in LabelOfFirst(i) \cup LabelOfOther(i)

\* the two runs saw different snapshots and both returned, and the stored
\* labels of the articles both labelled are those of neither run: one
\* article holds the first run's label where the second's differs, another
\* the second's where the first's differs
C21_Witness ==
    /\ BothReturned
    /\ batch # other["batch"]
    /\ \E i \in Overlap :
           store[i]["duplicate_cluster_id"] \notin LabelOfOther(i)
    /\ \E j \in Overlap :
           store[j]["duplicate_cluster_id"] \notin LabelOfFirst(j)

\* ------------------------------------------- labelling and highlight runs
\* C27: after any sequence of labelling runs and single-category highlight
\* runs with top_k >= 1, the category of the most recent highlight run has
\* at most top_k featured articles, and each of them was selected by that
\* run.
C27_FeaturedBoundSurvivesRelabel ==
    (pc = "done" /\ spc \in {"idle", "done"}) =>
        /\ Cardinality(FeaturedIn(store, category)) <= top_k
        /\ FeaturedIn(store, category) \subseteq Range(highlight_ids)

====
